---- MODULE Spec2Model ----
(***************************************************************************)
(* The concurrent detail-scraping pipeline of the job scraper:             *)
(*   JobScraperConfig._validate_workers, JobScraperManager.                *)
(*   _scrape_job_details (batch splitter, thread pool, aggregator),        *)
(*   process_job_batch (the worker) and the DatabaseConnector.update_job_* *)
(*   writes on the jobs table.                                             *)
(* Names follow src/job_scraper/__init__.py and src/job_scraper/db/        *)
(* connector.py; a leading underscore of a Python name is dropped.         *)
(***************************************************************************)
EXTENDS Integers, Sequences, FiniteSets, TLC

\* ------------------------------------------------------------------ bounds
\* Longest id list handed to _scrape_job_details.
MaxJobs == 4
\* Most rows of the jobs table in the runs that start from a table with
\* descriptions of every kind (SpecSelect, SpecSameId).
MaxRows == 2
\* Largest workers value a configuration carries.
MaxWorkers == 3
\* Largest start_page / end_page a configuration carries.
MaxPage == 2
\* Largest number a source_platform value spells out.
MaxId == 3
\* Most irregularities of one run: ids of the list whose row is gone from the
\* jobs table, store calls that fail, worker set-ups that fail.
MaxFaults == 1

\* ------------------------------------------------------------ basic values
\* Python None / SQL NULL.
None == "None"
\* The sentinel description.
NA == "N/A"

Min(a, b) == IF a <= b THEN a ELSE b

\* str.lower() on the strings of this model: the platform names as the
\* source_platform table spells them are the only ones with capitals.
lower(s) ==
    CASE s = "JobsDB"   -> "jobsdb"
      [] s = "LinkedIn" -> "linkedin"
      [] OTHER          -> s

\* What fetching and parsing the detail page of one job can give: a real
\* description, no description element (""), the text "N/A", or an
\* exception.
FetchOutcomes == {"valid", "empty", "na", "raise"}
\* What one DatabaseConnector.update_job_* call can do: run its query and
\* commit, hit an SQLAlchemyError (rollback, return False), or raise something
\* that is no SQLAlchemyError.
WriteOutcomes == {"ok", "sqlerror", "raise"}
\* DatabaseConnector() and the scraper constructor return or raise.
SetupOutcomes == {"ok", "raise"}
\* The query of get_jobs_with_filters returns its rows or raises.
SelectOutcomes == {"ok", "raise"}

\* The Job a fetch of job_id builds (models/job.py).
JobDetails(job_id, o) ==
    [ is_none      |-> FALSE,
      description  |-> CASE o = "valid" -> "desc-" \o ToString(job_id)
                         [] o = "empty" -> ""
                         [] OTHER       -> NA,
      job_class    |-> "class-" \o ToString(job_id),
      name         |-> "title-" \o ToString(job_id),
      company_name |-> "company-" \o ToString(job_id) ]

\* Python None where a Job is expected.
NoDetails ==
    [ is_none |-> TRUE, description |-> None, job_class |-> None,
      name |-> None, company_name |-> None ]

\* JobsdbScraper.get_job_details / LinkedInScraper.get_job_details: the whole
\* body is in try / except Exception: return None, so what fetching or
\* parsing raises never leaves the scraper.
get_job_details(job_id, o) ==
    IF o = "raise" THEN NoDetails ELSE JobDetails(job_id, o)

VARIABLES
    criterion,    \* the configuration: quantity, filter, job_class, page
                  \* bounds, _config_type, source_platform_id
    job_ids,      \* the id list passed to _scrape_job_details
    workers,      \* config.workers: [is_int, val]
    save,         \* config.save
    source,       \* config.source_platform: as given, then the validated name
    env,          \* what the collaborators may do in this run
    store,        \* the jobs table: a sequence of rows, internal_id = index
    store0,       \* the jobs table when the run started
    orch,         \* _scrape_job_details: its locals and its position
    task,         \* one entry per submitted batch: the future and the worker
    write_calls,  \* the store write methods invoked so far
    counted,      \* per place of the id list: the counter statement its job
                  \* reached, "pending" before
    faults        \* irregularities of the run so far

vars == <<criterion, job_ids, workers, save, source, env, store, store0, orch, task,
          write_calls, counted, faults>>

\* ------------------------------------------------------- JobScraperConfig
\* A value of a numeric field of the configuration is [is_int, val]: an
\* int, Python None, or something that is neither (a str, a float); val
\* of a value that is no int only tells the last two apart.
PyInt(v) == [is_int |-> TRUE, val |-> v]
PyNone == [is_int |-> FALSE, val |-> 0]
NotInt == [is_int |-> FALSE, val |-> 1]

\* __post_init__, lines 84-94: the type of the configuration.
post_init(c) ==
    IF c.quantity # PyNone THEN [c EXCEPT !.config_type = 1]
    ELSE IF c.start_page # PyNone \/ c.end_page # PyNone
         THEN [c EXCEPT !.config_type = 2]
    ELSE [c EXCEPT !.config_type = 1, !.quantity = PyInt(1)]

\* int(self.source_platform), lines 151-152: the number a string spells
\* out, or the ValueError of a string that spells none.
int_of(s) ==
    IF \E k \in 0..MaxId : ToString(k) = s
    THEN PyInt(CHOOSE k \in 0..MaxId : ToString(k) = s)
    ELSE NotInt

\* _validate_source_platform, lines 129-184, with the rows `platforms` of
\* the source_platform table ([] when reading it failed): whether the
\* value is accepted, and the id and name then kept. A number that is a
\* listed id is accepted with the name platform_id_to_name has for it;
\* anything else is compared as a name in the for loop, whose first turn
\* either finds the name or raises.
validate_source_platform(sp, platforms) ==
    LET n      == int_of(sp)
        listed == {k \in 1..Len(platforms) :
                      n.is_int /\ platforms[k].id = n.val}
        last   == CHOOSE k \in listed : \A j \in listed : j <= k
    IN  IF platforms = <<>>
        THEN [ok |-> FALSE, id |-> 0, name |-> None]
        ELSE IF listed # {}
        THEN [ok |-> TRUE, id |-> n.val, name |-> platforms[last].name]
        ELSE IF lower(platforms[1].name) = lower(sp)
        THEN [ok |-> TRUE, id |-> platforms[1].id, name |-> platforms[1].name]
        ELSE [ok |-> FALSE, id |-> 0, name |-> None]

\* _run_quantity_based / _run_page_based, lines 351-399: the platforms
\* that have a _run_<name>_quantity and a _run_<name>_pages method.
Supported == {"jobsdb", "linkedin"}

\* _validate_workers: anything that is no int >= 1 becomes 1.
\* lines 205-209 (_validate_type1_params): quantity
validate_quantity(q) ==
    IF ~q.is_int \/ q.val < 1 THEN [is_int |-> TRUE, val |-> 1] ELSE q

\* lines 211-219 (_validate_type1_params): FilterType(filter), or NEW
validate_filter(f) == IF f \in {"N/A", "all", "new"} THEN f ELSE "new"

validate_workers(w) ==
    IF ~w.is_int \/ w.val < 1 THEN [is_int |-> TRUE, val |-> 1] ELSE w

\* _validate_type1_params, lines 203-224.
validate_type1_params(c) ==
    [c EXCEPT !.quantity = validate_quantity(@),
              !.filter = validate_filter(@),
              !.start_page = PyNone,
              !.end_page = PyNone]

\* Not the code: an end_page that is only tested for being an int >= 1.
validate_end_page_alone(start_page, end_page) ==
    IF ~end_page.is_int \/ end_page.val < 1 THEN start_page ELSE end_page

\* lines 236-240 (_validate_type2_params): end_page, after start_page
validate_end_page(start_page, end_page) ==
    IF ~end_page.is_int \/ end_page.val < start_page.val
    THEN start_page ELSE end_page

\* _validate_type2_params, lines 226-244.
validate_type2_params(c) ==
    LET start_page == IF ~c.start_page.is_int \/ c.start_page.val < 1
                      THEN PyInt(1) ELSE c.start_page
    IN  [c EXCEPT !.start_page = start_page,
                  !.end_page = validate_end_page(start_page, @),
                  !.quantity = PyNone,
                  !.filter = "new"]

\* ------------------------------------------------------ the batch splitter
\* Not the code: the pool size without the cap at the number of jobs.
max_workers_uncapped(w, n) == w

\* max_workers = min(self.config.workers, len(job_ids))
max_workers_of(w, n) == Min(w, n)

\* Not the code: one job per batch.
batch_size_one(n, mw) == 1

\* Not the code: floor division (at least 1) for the batch size.
batch_size_floor(n, mw) == IF n \div mw = 0 THEN 1 ELSE n \div mw

\* batch_size = math.ceil(len(job_ids) / max_workers)
batch_size_of(n, mw) == (n + mw - 1) \div mw

\* range(0, n, batch_size): the start offsets of the slices.
batch_starts(n, bs) == {i \in 0..(n - 1) : i % bs = 0}

\* Not the code: a slice that stops one id early.
slice_short(ids, i, bs) == SubSeq(ids, i + 1, Min(i + bs, Len(ids)) - 1)

\* job_ids[i : i + batch_size]
slice(ids, i, bs) == SubSeq(ids, i + 1, Min(i + bs, Len(ids)))

\* [job_ids[i : i + batch_size] for i in range(0, len(job_ids), batch_size)]
job_batches_of(ids, bs) ==
    [k \in 1..Cardinality(batch_starts(Len(ids), bs)) |->
        slice(ids, (k - 1) * bs, bs)]


\* ------------------------------------------------------- DatabaseConnector
\* A row of the jobs table (JobModel), the columns the pipeline touches.
Row(job_id, src) ==
    [ id |-> job_id, description |-> None, job_class |-> None,
      name |-> None, company_name |-> None, source |-> src ]

\* session.query(JobModel).filter(JobModel.id == job_id).first(): a row with
\* that id (no ORDER BY: any of them), or 0 for "not found".
first_row(st, job_id) ==
    LET hits == {r \in 1..Len(st) : st[r].id = job_id}
    IN  IF hits = {} THEN {0} ELSE hits

\* Not the code: an update that adds a row when the id has none.
set_column_upsert(st, r, column, value) ==
    IF r = 0 THEN Append(st, [Row(0, None) EXCEPT ![column] = value])
    ELSE [st EXCEPT ![r][column] = value]

\* job.<column> = value; session.commit()
set_column(st, r, column, value) ==
    IF r = 0 THEN st ELSE [st EXCEPT ![r][column] = value]

\* One update_job_description / _class / _title / _company call with what it
\* does to the table and what it hands back: True, False, or "raise".
update_job(st, job_id, column, value, outcome, r) ==
    CASE outcome = "ok"       -> [store |-> set_column(st, r, column, value),
                                  result |-> IF r = 0 THEN "False" ELSE "True"]
      [] outcome = "sqlerror" -> [store |-> st, result |-> "False"]
      [] OTHER                -> [store |-> st, result |-> "raise"]

\* A call that did not go well uses up one of the run's irregularities.
fault(o) == IF o = "ok" THEN 0 ELSE 1

\* The db.update_job_* calls `calls` made one after the other, up to the
\* first that raises, in every way the environment allows with `budget`
\* irregularities left: the table after them, what each call returned,
\* whether one raised, the methods invoked, the irregularities used.
RECURSIVE do_calls(_, _, _, _)
do_calls(st, job_id, calls, budget) ==
    IF calls = <<>>
    THEN {[store |-> st, results |-> <<>>, raised |-> FALSE, made |-> {},
           faults |-> 0]}
    ELSE LET c == Head(calls)
         IN  UNION {
               LET u == update_job(st, job_id, c.column, c.value, y[1], y[2])
               IN  IF u.result = "raise"
                   THEN {[store |-> st, results |-> <<>>, raised |-> TRUE,
                          made |-> {c.method}, faults |-> 1]}
                   ELSE {[store |-> x.store,
                          results |-> <<u.result>> \o x.results,
                          raised |-> x.raised,
                          made |-> {c.method} \cup x.made,
                          faults |-> fault(y[1]) + x.faults] :
                            x \in do_calls(u.store, job_id, Tail(calls),
                                           budget - fault(y[1]))}
               : y \in {z \in env.write \X first_row(st, job_id) :
                          fault(z[1]) <= budget} }

\* Not the code: a query that forgets the description filter.
description_filter_none(row, filter_type) == TRUE

\* lines 195-206: the description filter of filter_type; "all" (or anything
\* else) filters nothing.
description_filter(row, filter_type) ==
    CASE filter_type = "new" -> row.description = None \/ row.description = ""
      [] filter_type = "N/A" -> \/ row.description = None
                                \/ row.description = ""
                                \/ row.description = NA
      [] OTHER               -> TRUE

\* lines 208-219: the filters of the query. The job_class and source
\* comparisons are made on lower-cased values; a NULL column equals
\* nothing.
row_filter(row, filter_type, job_class, src) ==
    /\ description_filter(row, filter_type)
    /\ job_class # None =>
         row.job_class # None /\ lower(row.job_class) = lower(job_class)
    /\ src # None => row.source # None /\ lower(row.source) = lower(src)

\* line 222: order_by(JobModel.internal_id.desc()).limit(limit): the ids of
\* the matching rows from the highest internal_id down, at most `limit`.
RECURSIVE newest_ids(_, _, _, _, _)
newest_ids(st, limit, filter_type, job_class, src) ==
    IF st = <<>> \/ limit = 0 THEN <<>>
    ELSE LET row  == st[Len(st)]
             rest == SubSeq(st, 1, Len(st) - 1)
         IN  IF row_filter(row, filter_type, job_class, src)
             THEN <<row.id>> \o
                  newest_ids(rest, limit - 1, filter_type, job_class, src)
             ELSE newest_ids(rest, limit, filter_type, job_class, src)

\* lines 178-231: the list of ids, or [] when the query raises.
get_jobs_with_filters(st, limit, filter_type, job_class, src, outcome) ==
    IF outcome = "ok"
    THEN newest_ids(st, limit, filter_type, job_class, src)
    ELSE <<>>

\* ------------------------------------------------------------ initial state
RECURSIVE SeqOf(_, _)
SeqOf(S, src) ==
    IF S = {} THEN <<>>
    ELSE LET m == CHOOSE x \in S : \A y \in S : x <= y
         IN  <<Row(m, src)>> \o SeqOf(S \ {m}, src)

RawWorkers ==
    {[is_int |-> TRUE, val |-> v] : v \in 0..MaxWorkers}
        \cup {[is_int |-> FALSE, val |-> 0]}

\* config.quantity as given: an int, None, or something else.
RawQuantity ==
    {[is_int |-> TRUE, val |-> v] : v \in 0..MaxJobs}
        \cup {[is_int |-> FALSE, val |-> 0], NotInt}

\* The source_platform table of the runs whose platform is accepted by
\* name: the platform asked for, then the other one.
Platforms(src) ==
    << [id |-> 1, name |-> src],
       [id |-> 2, name |-> IF src = "jobsdb" THEN "linkedin" ELSE "jobsdb"] >>

\* config.start_page / config.end_page as given.
RawPage == {PyInt(v) : v \in 0..MaxPage} \cup {PyNone, NotInt}

\* The configurations as constructed from a quantity, a filter and a job
\* class, without page bounds.
Configs(quantities, filters, job_classes) ==
    { post_init([quantity |-> q, filter |-> f, job_class |-> jc,
                 start_page |-> PyNone, end_page |-> PyNone,
                 config_type |-> 0, source_platform_id |-> PyNone]) :
        q \in quantities, f \in filters, jc \in job_classes }

\* config.filter as given: a value of FilterType or some other string.
RawFilter == {"new", "N/A", "all", "newest"}

orch0 ==
    [ pc |-> "validate", max_workers |-> 0, batch_size |-> 0,
      job_batches |-> <<>>, cursor |-> 0,
      total_success |-> 0, total_failure |-> 0, exc |-> FALSE,
      query |-> "none" ]

\* A run over a jobs table of 0..MaxJobs rows without description, all of
\* the platform asked for, with any workers value, either save flag, either
\* supported source, a quantity of `quantities` and a filter of `filters`,
\* with at most MaxFaults irregularities, in which a fetch may give any of
\* `fetched`.
InitWith(fetched, quantities, filters) ==
    /\ source \in {"jobsdb", "linkedin"}
    /\ \E m \in 0..MaxJobs :
        /\ store = SeqOf(1..m, source)
        /\ env = [ fetch |-> [p \in 1..m |-> fetched],
                   write |-> WriteOutcomes, setup |-> SetupOutcomes,
                   select |-> SelectOutcomes, vanish |-> {"none", "row"},
                   platforms |-> Platforms(source) ]
    /\ criterion \in Configs(quantities, filters, {None})
    /\ workers \in RawWorkers
    /\ save \in BOOLEAN
    /\ job_ids = <<>>
    /\ faults = 0
    /\ store0 = store
    /\ orch = orch0
    /\ task = <<>>
    /\ write_calls = {}
    /\ counted = <<>>

\* The quantities of Spec: the invalid ones, one that cuts the selection
\* short of the table, and one that takes every row.
SomeQuantity == {q \in RawQuantity : ~q.is_int \/ q.val \in {0, 2, MaxJobs}}

Init == InitWith(FetchOutcomes, SomeQuantity, {"new"})

\* ---------------------------------------------------- _scrape_job_details
task0(batch) ==
    [ status |-> "unsubmitted", batch |-> batch, idx |-> 0,
      success_count |-> 0, failure_count |-> 0,
      details |-> NoDetails ]

\* JobScraperManager.__init__ -> config.validate(): first
\* _validate_source_platform, whose ValueError leaves __init__ (no manager,
\* no run); then _validate_workers and _validate_type1_params or
\* _validate_type2_params. Then run() takes the quantity-based way to the
\* selection or the page-based way (the search pipeline, which ends this
\* model's run), or returns "Unsupported platform" for a platform without
\* _run_ methods.
validate ==
    /\ orch.pc = "validate"
    /\ LET v == validate_source_platform(source, env.platforms)
       IN  IF ~v.ok
           THEN /\ orch' = [orch EXCEPT !.pc = "invalid"]
                /\ UNCHANGED <<workers, criterion, source>>
           ELSE /\ source' = v.name
                /\ workers' = validate_workers(workers)
                /\ criterion' =
                     [ (IF criterion.config_type = 1
                        THEN validate_type1_params(criterion)
                        ELSE validate_type2_params(criterion))
                       EXCEPT !.source_platform_id = PyInt(v.id) ]
                /\ orch' = [orch EXCEPT !.pc =
                     IF lower(v.name) \notin Supported THEN "unsupported"
                     ELSE IF criterion.config_type = 1 THEN "select"
                     ELSE "pages"]
    /\ UNCHANGED <<job_ids, save, env, store, store0, task,
                   write_calls, counted, faults>>

\* The table without the rows at the indices `gone`.
RECURSIVE without(_, _)
without(st, gone) ==
    IF st = <<>> THEN <<>>
    ELSE without(SubSeq(st, 1, Len(st) - 1), gone) \o
         (IF Len(st) \in gone THEN <<>> ELSE <<st[Len(st)]>>)

\* The rows that may be gone when the workers come to them: with "row" in
\* env.vanish another client of the database may have deleted rows of
\* selected ids after the selection, as many as `budget` allows.
vanished(st, ids, budget) ==
    {gone \in SUBSET {r \in 1..Len(st) :
                        \E i \in 1..Len(ids) : ids[i] = st[r].id} :
        /\ Cardinality(gone) <= budget
        /\ gone # {} => "row" \in env.vanish}

\* Not the code: the ids handed to _scrape_job_details without the test
\* for an empty list.
select_unguarded ==
    /\ orch.pc = "select"
    /\ \E o \in env.select :
        /\ faults + fault(o) <= MaxFaults
        /\ job_ids' = get_jobs_with_filters(store, criterion.quantity.val,
                          criterion.filter, criterion.job_class, source, o)
        /\ orch' = [orch EXCEPT !.pc = "split", !.query = o]
        /\ faults' = faults + fault(o)
    /\ counted' = [p \in 1..Len(job_ids') |-> "pending"]
    /\ UNCHANGED <<criterion, workers, save, source, env, store, store0, task,
                   write_calls>>

\* _run_jobsdb_quantity / _run_linkedin_quantity, lines 401-433: the ids
\* from get_jobs_with_filters; without any, the run ends there with
\* "No jobs found", otherwise _scrape_job_details gets them. store0 is the
\* table as the run's workers find it; orch.query keeps what the query of
\* get_jobs_with_filters did.
select ==
    /\ orch.pc = "select"
    /\ \E o \in env.select :
        /\ faults + fault(o) <= MaxFaults
        /\ LET ids == get_jobs_with_filters(store, criterion.quantity.val,
                          criterion.filter, criterion.job_class, source, o)
           IN  /\ job_ids' = ids
               /\ orch' = [orch EXCEPT
                             !.pc = IF ids = <<>> THEN "no_jobs" ELSE "split",
                             !.query = o]
               /\ \E gone \in vanished(store, ids, MaxFaults - faults - fault(o)) :
                    /\ store' = without(store, gone)
                    /\ faults' = faults + fault(o) + Cardinality(gone)
        /\ store0' = store'
    /\ counted' = [p \in 1..Len(job_ids') |-> "pending"]
    /\ UNCHANGED <<criterion, workers, save, source, env, task, write_calls>>

\* lines 553-570: max_workers, batch_size, job_batches, the two totals.
split ==
    /\ orch.pc = "split"
    /\ LET mw == max_workers_of(workers.val, Len(job_ids))
           bs == batch_size_of(Len(job_ids), mw)
           jb == job_batches_of(job_ids, bs)
       IN  /\ orch' = [orch EXCEPT !.pc = "submit", !.max_workers = mw,
                                   !.batch_size = bs, !.job_batches = jb]
           /\ task' = [w \in 1..Len(jb) |-> task0(jb[w])]
    /\ UNCHANGED <<criterion, job_ids, workers, save, source, env, store, store0,
                   write_calls, counted, faults>>

Finished == {w \in 1..Len(task) : task[w].status \in {"returned", "raised"}}
Running == {w \in 1..Len(task) : task[w].status = "running"}

\* lines 572-584: the pool is made and every batch is submitted to it, in
\* order, as one future each.
submit ==
    /\ orch.pc = "submit"
    /\ task' = [w \in 1..Len(task) |-> [task[w] EXCEPT !.status = "pending"]]
    /\ orch' = [orch EXCEPT !.pc = "collect", !.cursor = 1]
    /\ UNCHANGED <<criterion, job_ids, workers, save, source, env, store, store0,
                   write_calls, counted, faults>>

RECURSIVE Sum(_, _, _)
Sum(ts, field, k) == IF k = 0 THEN 0 ELSE ts[k][field] + Sum(ts, field, k - 1)

\* The first future, in submission order, that has not returned a tuple.
first_open(ts) ==
    LET open == {w \in 1..Len(ts) : ts[w].status # "returned"}
    IN  IF open = {} THEN Len(ts) + 1
        ELSE CHOOSE x \in open : \A y \in open : x <= y

\* Not the code: totals taken from the futures as they stand, without
\* waiting for them.
collect_nowait ==
    /\ orch.pc = "collect"
    /\ orch' = [orch EXCEPT
          !.pc = "shutdown",
          !.cursor = Len(task) + 1,
          !.total_success = Sum(task, "success_count", Len(task)),
          !.total_failure = Sum(task, "failure_count", Len(task))]
    /\ UNCHANGED <<criterion, job_ids, workers, save, source, env, store, store0, task,
                   write_calls, counted, faults>>

\* lines 587-590, for future in futures: future.result() blocks until that
\* task is done, hands back its tuple or re-raises what the task raised. The
\* loop ends after the last future, or at the first one that raised.
collect ==
    /\ orch.pc = "collect"
    /\ LET k == first_open(task)
       IN  /\ k <= Len(task) => task[k].status = "raised"
           /\ orch' = [orch EXCEPT
                 !.pc = "shutdown",
                 !.cursor = k,
                 !.exc = (k <= Len(task)),
                 !.total_success = Sum(task, "success_count", k - 1),
                 !.total_failure = Sum(task, "failure_count", k - 1)]
    /\ UNCHANGED <<criterion, job_ids, workers, save, source, env, store, store0, task,
                   write_calls, counted, faults>>

\* Not the code: leaving the pool without waiting for its tasks.
shutdown_nowait ==
    /\ orch.pc = "shutdown"
    /\ orch' = [orch EXCEPT !.pc = IF orch.exc THEN "raised" ELSE "returned"]
    /\ UNCHANGED <<criterion, job_ids, workers, save, source, env, store, store0, task,
                   write_calls, counted, faults>>

\* line 572, leaving the with block: ThreadPoolExecutor.__exit__ is
\* shutdown(wait=True); then lines 592-605 return the totals, or the
\* exception of future.result() goes on to the caller.
shutdown ==
    /\ orch.pc = "shutdown"
    /\ Finished = 1..Len(task)
    /\ orch' = [orch EXCEPT !.pc = IF orch.exc THEN "raised" ELSE "returned"]
    /\ UNCHANGED <<criterion, job_ids, workers, save, source, env, store, store0, task,
                   write_calls, counted, faults>>


\* What run() hands back: lines 411-415 / 428-432 without ids, lines 600-605
\* from _scrape_job_details, lines 370-373 for a platform without _run_
\* method; nothing while the run goes on or when future.result() raised.
run_result ==
    CASE orch.pc = "no_jobs" ->
             [ success |-> FALSE, message |-> "No jobs found",
               jobs_scraped |-> 0 ]
      [] orch.pc = "returned" ->
             [ success |-> TRUE,
               jobs_processed |-> orch.total_success + orch.total_failure,
               success_count |-> orch.total_success,
               failure_count |-> orch.total_failure ]
      [] orch.pc = "unsupported" ->
             [ success |-> FALSE,
               message |-> "Unsupported platform: " \o source ]
      [] OTHER -> [ x \in {} |-> None ]

\* ------------------------------------------------------- process_job_batch
Others == <<criterion, job_ids, workers, save, source, env, store0, orch>>

\* The job the worker is at: job_batch[idx].
job_at(t) == t.batch[t.idx]

\* Where job_batch[idx] of worker w stands in the id list.
position(w, t) == (w - 1) * orch.batch_size + t.idx

\* Not the code: a loop that steps over every other job.
next_job_skip(t) ==
    [t EXCEPT !.idx = IF t.idx + 1 < Len(t.batch) THEN @ + 2
                      ELSE IF t.idx < Len(t.batch) THEN @ + 1 ELSE @,
              !.status = IF t.idx < Len(t.batch) THEN "running" ELSE "returned",
              !.details = NoDetails]

\* line 626, for idx, job_id in enumerate(job_batch): on to the next job;
\* after the last one lines 685-688 return (success_count, failure_count).
next_job(t) ==
    [t EXCEPT !.idx = IF t.idx < Len(t.batch) THEN @ + 1 ELSE @,
              !.status = IF t.idx < Len(t.batch) THEN "running" ELSE "returned",
              !.details = NoDetails]

\* Not the code: a validity test that forgets the empty description.
is_valid_not_na(d) ==
    ~d.is_none /\ d.description # None /\ d.description # NA

\* lines 640-644: job_details and job_details.description and
\* job_details.description != "N/A"
is_valid(d) ==
    ~d.is_none /\ d.description # None /\ d.description # ""
        /\ d.description # NA

call(method, column, value) ==
    [method |-> method, column |-> column, value |-> value]

\* Not the code: the job title saved in the description column.
valid_calls_title(d) ==
    <<call("update_job_description", "description", d.name)>>

\* lines 645-652: the writes of a job whose description is valid.
valid_calls(d) ==
    <<call("update_job_description", "description", d.description)>> \o
    ( CASE lower(source) = "linkedin" ->
             << call("update_job_title", "name", d.name),
                call("update_job_company", "company_name", d.company_name) >>
        [] lower(source) = "jobsdb" ->
             << call("update_job_class", "job_class", d.job_class) >>
        [] OTHER -> <<>> )

\* Not the code: the store calls made whatever the save flag says.
try_calls_always(t) ==
    IF is_valid(t.details) THEN valid_calls(t.details)
    ELSE <<call("update_job_description", "description", NA)>>

\* Not the code: nothing written for a job without valid description.
try_calls_no_sentinel(t) ==
    IF save /\ is_valid(t.details) THEN valid_calls(t.details) ELSE <<>>

\* lines 640-671: the store calls the try block makes for what the fetch
\* gave; none in preview mode.
try_calls(t) ==
    IF ~save THEN <<>>
    ELSE IF is_valid(t.details) THEN valid_calls(t.details)
    ELSE <<call("update_job_description", "description", NA)>>

\* Not the code: an except clause that counts nothing.
tally_drop_raised(t, a, raised) ==
    IF raised THEN t
    ELSE IF is_valid(t.details) /\ (~save \/ a.results[1] = "True")
         THEN [t EXCEPT !.success_count = @ + 1]
         ELSE [t EXCEPT !.failure_count = @ + 1]

\* Not the code: a valid description counted as a success whatever
\* update_job_description returned.
tally_ignore_write(t, a, raised) ==
    IF raised THEN [t EXCEPT !.failure_count = @ + 1]
    ELSE IF is_valid(t.details)
         THEN [t EXCEPT !.success_count = @ + 1]
         ELSE [t EXCEPT !.failure_count = @ + 1]

\* lines 653-660, 670, 674: the one counter this job moves. `a` is what the
\* try block's store calls did, `raised` whether the try block raised.
tally(t, a, raised) ==
    IF raised THEN [t EXCEPT !.failure_count = @ + 1]
    ELSE IF is_valid(t.details) /\ (~save \/ a.results[1] = "True")
         THEN [t EXCEPT !.success_count = @ + 1]
         ELSE [t EXCEPT !.failure_count = @ + 1]

\* Not the code: the except clause counts the job and ends the batch.
loop_turn_abandon(t, a, raised) ==
    IF raised THEN [tally(t, a, raised) EXCEPT !.status = "returned"]
    ELSE next_job(tally(t, a, raised))

\* Not the code: a job without success is tried again before the loop
\* goes on.
loop_turn_retry(t, a, raised) ==
    LET c == tally(t, a, raised)
    IN  IF c.success_count = t.success_count /\ c.failure_count = 1
        THEN [c EXCEPT !.details = NoDetails]
        ELSE next_job(c)

\* lines 626-627, 673: the try / except Exception around one turn of the
\* loop: whatever the turn raised, the job is counted and the loop goes on.
loop_turn(t, a, raised) == next_job(tally(t, a, raised))

\* type(e).__name__ of what a store call raises past its except
\* SQLAlchemyError clause.
StoreError == "OperationalError"

\* lines 679-683: with save, the except clause writes the error-tagged
\* description; what that write raises is swallowed.
except_calls(e) ==
    IF save THEN <<call("update_job_description", "description",
                        "Error: " \o e)>>
    ELSE <<>>

\* lines 610-625: the pool thread takes the task; DatabaseConnector() and the
\* scraper are built outside any try, an unsupported source raises ValueError.
start_batch(w) ==
    /\ w \in 1..Len(task)
    /\ task[w].status = "pending"
    /\ Cardinality(Running) < orch.max_workers
    /\ \E o \in env.setup :
        /\ faults + fault(o) <= MaxFaults
        /\ task' = [task EXCEPT ![w] =
              IF o = "ok" /\ lower(source) \in {"jobsdb", "linkedin"}
              THEN next_job(task[w])
              ELSE [task[w] EXCEPT !.status = "raised"]]
        /\ faults' = faults + fault(o)
    /\ UNCHANGED <<Others, store, write_calls, counted>>

InLoop(w) ==
    /\ w \in 1..Len(task)
    /\ task[w].status = "running"

\* The statement that counts the job: line 654 (description saved), 657
\* (update_job_description returned False), 660 (preview), 670 (no valid
\* description), 674 (the except clause).
counter_line(t, a, raised) ==
    CASE raised                 -> "error"
      [] ~is_valid(t.details)   -> "empty"
      [] ~save                  -> "preview"
      [] a.results[1] = "True"  -> "saved"
      [] OTHER                  -> "rejected"

\* lines 627-683, one turn of the loop: the random sleep, then
\* scraper.get_job_details(job_id) returns a Job or None; the try block
\* classifies it, makes its store calls and counts the job; when a store
\* call raises, the except clause counts a failure and writes the error
\* tag. Each store call is a transaction of its own on the rows of this
\* job's id.
process_job(w) ==
    /\ InLoop(w)
    /\ \E o \in env.fetch[position(w, task[w])] :
        LET t == [task[w] EXCEPT !.details = get_job_details(job_at(task[w]), o)]
        IN  \E a \in do_calls(store, job_at(t), try_calls(t),
                              MaxFaults - faults) :
              \E h \in do_calls(a.store, job_at(t),
                                IF a.raised THEN except_calls(StoreError)
                                ELSE <<>>,
                                MaxFaults - faults - a.faults) :
                /\ store' = h.store
                /\ task' = [task EXCEPT ![w] = loop_turn(t, a, a.raised)]
                /\ counted' = [counted EXCEPT ![position(w, t)] =
                                  counter_line(t, a, a.raised)]
                /\ write_calls' = write_calls \cup a.made \cup h.made
                /\ faults' = faults + a.faults + h.faults
    /\ UNCHANGED Others

\* ------------------------------------------------------------ specification
Next ==
    \/ validate
    \/ select
    \/ split
    \/ submit
    \/ collect
    \/ shutdown
    \/ \E w \in 1..Len(task) : start_batch(w)
    \/ \E w \in 1..Len(task) : process_job(w)

Spec == Init /\ [][Next]_vars


\* The runs of the 10-job scenario: ten ids, workers = 3, every row present,
\* seven fetches give a valid description and three an empty one, and the
\* store and the set-up of the workers never fail.
InitScenario ==
    /\ job_ids = <<>>
    /\ criterion \in Configs({PyInt(10)}, {"new"}, {None})
    /\ source \in {"jobsdb", "linkedin"}
    /\ \E empties \in SUBSET (1..10) :
        /\ Cardinality(empties) = 3
        /\ env = [ fetch |-> [p \in 1..10 |->
                               IF p \in empties THEN {"empty"} ELSE {"valid"}],
                   write |-> {"ok"}, setup |-> {"ok"}, select |-> {"ok"},
                   vanish |-> {"none"},
               platforms |-> Platforms(source) ]
    /\ store = SeqOf(1..10, source)
    /\ faults = 0
    /\ workers = [is_int |-> TRUE, val |-> 3]
    /\ save \in BOOLEAN
    /\ store0 = store
    /\ orch = orch0
    /\ task = <<>>
    /\ write_calls = {}
    /\ counted = <<>>

SpecScenario == InitScenario /\ [][Next]_vars

\* The runs in which every fetch gives a valid description; rows may be
\* missing and the store may fail as in Spec.
InitValidFetch == InitWith({"valid"}, SomeQuantity, {"new"})

SpecValidFetch == InitValidFetch /\ [][Next]_vars


\* The runs in which every fetch gives an empty or an "N/A" description.
InitEmptyFetch == InitWith({"empty", "na"}, SomeQuantity, {"new"})

SpecEmptyFetch == InitEmptyFetch /\ [][Next]_vars

\* The runs in which fetching or parsing every detail page raises.
InitRaiseFetch == InitWith({"raise"}, SomeQuantity, {"new"})

SpecRaiseFetch == InitRaiseFetch /\ [][Next]_vars

\* What a description column may hold before a run: NULL, "", the sentinel,
\* a description saved earlier, an error tag written earlier.
Descriptions == {None, "", NA, "desc-0", "Error: " \o StoreError}

\* The tables of MaxRows rows at most, the row at index k carrying the id
\* ids[k], with every description, with or without a job class, of the platform
\* asked for or of another one.
Tables(ids, src) ==
    UNION { [ 1..m -> UNION { [ id : {ids[k]}, description : Descriptions,
                                 job_class : {None, "class-0"}, name : {None},
                                 company_name : {None},
                                 source : {src, "indeed"} ] : k \in 1..m } ]
            : m \in 0..MaxRows }

\* The runs that start from such a table with an id per row, every filter
\* and job class, a quantity of 1 or more, two workers, save on, and in
\* which nothing fails: a fetch gives a description or none.
InitSelect ==
    /\ source = "jobsdb"
    /\ store \in {t \in Tables([k \in 1..MaxRows |-> k], source) :
                    \A k \in 1..Len(t) : t[k].id = k}
    /\ env = [ fetch |-> [p \in 1..Len(store) |-> {"valid", "empty"}],
               write |-> {"ok"}, setup |-> {"ok"}, select |-> {"ok"},
               vanish |-> {"none"},
               platforms |-> Platforms(source) ]
    /\ criterion \in Configs({PyInt(1), PyInt(MaxRows)}, RawFilter \ {"newest"},
                            {None, "class-0"})
    /\ workers = [is_int |-> TRUE, val |-> 2]
    /\ save = TRUE
    /\ job_ids = <<>>
    /\ faults = 0
    /\ store0 = store
    /\ orch = orch0
    /\ task = <<>>
    /\ write_calls = {}
    /\ counted = <<>>

SpecSelect == InitSelect /\ [][Next]_vars

\* The runs that start from a table in which rows may carry the same job
\* id: JobModel.id is not unique and save_jobs adds a row per job it is
\* given. One or two workers, every filter, nothing fails.
InitSameId ==
    /\ source \in {"jobsdb", "linkedin"}
    /\ store \in UNION { Tables(ids, source) :
                            ids \in [1..MaxRows -> 1..MaxRows] }
    /\ \A r \in 1..Len(store) :
         store[r].source = source /\ store[r].job_class = None
    /\ env = [ fetch |-> [p \in 1..Len(store) |-> {"valid", "empty"}],
               write |-> {"ok"}, setup |-> {"ok"}, select |-> {"ok"},
               vanish |-> {"none"},
               platforms |-> Platforms(source) ]
    /\ criterion \in Configs({PyInt(MaxRows)}, RawFilter \ {"newest"}, {None})
    /\ workers \in {[is_int |-> TRUE, val |-> v] : v \in 1..2}
    /\ save \in BOOLEAN
    /\ job_ids = <<>>
    /\ faults = 0
    /\ store0 = store
    /\ orch = orch0
    /\ task = <<>>
    /\ write_calls = {}
    /\ counted = <<>>

SpecSameId == InitSameId /\ [][Next]_vars

\* =================================================================== claims
RECURSIVE Concat(_)
Concat(ss) == IF ss = <<>> THEN <<>> ELSE Head(ss) \o Concat(Tail(ss))

RECURSIVE SumLen(_)
SumLen(ss) == IF ss = <<>> THEN 0 ELSE Len(Head(ss)) + SumLen(Tail(ss))

\* The splitter has run / the batches have been submitted.
HasSplit ==
    orch.pc \notin {"validate", "invalid", "unsupported", "pages", "select",
                    "no_jobs", "split"}
HasSubmitted == HasSplit /\ orch.pc # "submit"

\* The jobs of a task that reached their end.
Done(t) ==
    CASE t.status = "returned" -> Len(t.batch)
      [] t.status = "running"  -> t.idx - 1
      [] OTHER                 -> 0

HasRow(job_id) == \E r \in 1..Len(store) : store[r].id = job_id

ErrorTags == {"Error: " \o StoreError}

\* The places of a batch whose row carries the tag the except clause writes.
Tagged(t) ==
    {i \in 1..Len(t.batch) :
        \E r \in 1..Len(store) :
            store[r].id = t.batch[i] /\ store[r].description \in ErrorTags}

\* C1: the id list of length N >= 1 is cut into contiguous batches of size
\* ceil(N / min(W, N)); only the last may be shorter, none is empty, their
\* lengths sum to N and their concatenation, in submission order, is the list.
C1_BatchesPartition ==
    HasSplit =>
        LET n  == Len(job_ids)
            jb == orch.job_batches
            ew == Min(workers.val, n)
            bs == orch.batch_size
        IN  /\ bs * ew >= n /\ (bs - 1) * ew < n
            /\ \A k \in 1..Len(jb) :
                 /\ Len(jb[k]) >= 1
                 /\ Len(jb[k]) <= bs
                 /\ k < Len(jb) => Len(jb[k]) = bs
            /\ SumLen(jb) = n
            /\ Concat(jb) = job_ids
            /\ Len(task) = Len(jb)
            /\ \A w \in 1..Len(task) : task[w].batch = jb[w]

\* C1 witness: a split into several batches whose last one is shorter.
C1_Witness ==
    /\ HasSplit
    /\ Len(orch.job_batches) >= 2
    /\ Len(orch.job_batches[Len(orch.job_batches)]) < orch.batch_size

\* C2: once the configuration is validated and the pipeline has started,
\* workers is an int >= 1 and the pool size is min(workers, N), at least 1 and
\* at most the number of jobs.
C2_PoolSize ==
    /\ orch.pc \notin {"validate", "invalid"} =>
         workers.is_int /\ workers.val >= 1
    /\ HasSplit =>
        /\ orch.max_workers = Min(workers.val, Len(job_ids))
        /\ orch.max_workers >= 1
        /\ orch.max_workers <= Len(job_ids)

\* C2 witness: more workers asked for than there are jobs, pool of N threads.
C2_Witness ==
    /\ HasSubmitted
    /\ workers.val > Len(job_ids)
    /\ orch.max_workers = Len(job_ids)
    /\ Len(job_ids) >= 2

\* C3 as stated: the number of batch tasks submitted equals min(W, N),
\* and none is left unfinished when the orchestrator returns.
C3_TasksEqualWorkers ==
    /\ HasSubmitted => Len(task) = Min(workers.val, Len(job_ids))
    /\ orch.pc = "returned" =>
         \A w \in 1..Len(task) : task[w].status \in {"returned", "raised"}

\* C3 amended: one task is submitted per batch, ceil(N / batch_size) of them,
\* at least one and at most min(W, N); none is left unfinished when the
\* orchestrator returns.
C3_TasksPerBatch ==
    /\ HasSubmitted =>
        /\ Len(task) * orch.batch_size >= Len(job_ids)
        /\ (Len(task) - 1) * orch.batch_size < Len(job_ids)
        /\ Len(task) >= 1
        /\ Len(task) <= Min(workers.val, Len(job_ids))
        /\ \A w \in 1..Len(task) : task[w].status # "unsubmitted"
    /\ orch.pc = "returned" =>
         \A w \in 1..Len(task) : task[w].status \in {"returned", "raised"}

\* C3 witness: the orchestrator has returned from a run with fewer tasks
\* than min(W, N).
C3_Witness ==
    /\ orch.pc = "returned"
    /\ Len(task) < Min(workers.val, Len(job_ids))

\* C4: 10 ids, 3 workers, 7 valid and 3 empty fetches, no store failure: the
\* batches have sizes 4, 4, 2 and the run reports 7 successes, 3 failures.
C4_Scenario ==
    /\ HasSplit =>
         [k \in 1..Len(orch.job_batches) |-> Len(orch.job_batches[k])]
             = <<4, 4, 2>>
    /\ orch.pc # "raised"
    /\ orch.pc = "returned" =>
         orch.total_success = 7 /\ orch.total_failure = 3

\* C4 witness: a saving run of the scenario has returned, its empty fetches
\* spread over the three batches.
C4_Witness ==
    /\ orch.pc = "returned"
    /\ save
    /\ env.fetch[1] = {"empty"} /\ env.fetch[5] = {"empty"}
    /\ env.fetch[10] = {"empty"}
    /\ orch.total_success = 7

\* C5: process_job_batch never raises past its boundary: whatever fails (the
\* store connection, the scraper's construction, a fetch, a store write), no
\* batch task ends with an exception.
C5_NeverRaises ==
    \A w \in 1..Len(task) : task[w].status # "raised"

\* C6: when the turn of job X raised (its row carries the error tag), X is
\* counted as a failure and the worker goes on: it is running or has
\* returned, and its counts cover every job it has been through, the whole
\* batch once it returned.
C6_ExceptionKeepsBatchGoing ==
    \A w \in 1..Len(task) :
        LET t == task[w]
        IN  Tagged(t) # {} =>
              /\ t.status \in {"running", "returned"}
              /\ \A i \in Tagged(t) : i <= Done(t)
              /\ t.failure_count >= Cardinality(Tagged(t))
              /\ t.success_count + t.failure_count = Done(t)
              /\ t.status = "returned" =>
                   t.success_count + t.failure_count = Len(t.batch)

\* C6 witness: a worker returned from a batch whose first job raised and
\* whose later job was counted as a success.
C6_Witness ==
    \E w \in 1..Len(task) :
        /\ task[w].status = "returned"
        /\ 1 \in Tagged(task[w])
        /\ Len(task[w].batch) >= 2
        /\ task[w].success_count >= 1

\* C7: a batch task that raises does not crash the orchestrator: it returns
\* totals in which that batch counts as so many failures.
C7_OrchestratorSurvives ==
    /\ orch.pc # "raised"
    /\ orch.pc = "returned" =>
         orch.total_success + orch.total_failure = Len(job_ids)

\* C8: the orchestrator has returned, or passed an exception on, only when
\* every submitted batch task has finished.
C8_Join ==
    orch.pc \in {"returned", "raised"} =>
        \A w \in 1..Len(task) : task[w].status \in {"returned", "raised"}

\* C8 witness: the orchestrator passed on the exception of one task after a
\* later task had worked through its batch.
C8_Witness ==
    /\ orch.pc = "raised"
    /\ \E w \in 1..Len(task) :
         /\ w > orch.cursor
         /\ task[w].status = "returned"
         /\ task[w].success_count + task[w].failure_count >= 1

\* C9: with save = False no store write method is invoked and the jobs table
\* stays as it was, whatever the fetches give.
C9_PreviewNoWrite ==
    ~save => write_calls = {} /\ store = store0

\* C9 witness: a preview run has returned with successes and failures.
C9_Witness ==
    /\ ~save
    /\ orch.pc = "returned"
    /\ orch.total_success >= 1
    /\ orch.total_failure >= 1

\* The jobs a task has been through whose id has no row.
DoneUnknown(t) == {i \in 1..Done(t) : ~HasRow(t.batch[i])}

\* C10: a valid description, save = True, update_job_description returning
\* False for an id without a row: the job is a failure, never a success, the
\* worker does not raise, and the table gets no row for that id.
C10_UnknownIdIsFailure ==
    save =>
        /\ \A w \in 1..Len(task) :
             LET t == task[w]
             IN  /\ t.failure_count >= Cardinality(DoneUnknown(t))
                 /\ t.success_count <= Done(t) - Cardinality(DoneUnknown(t))
                 /\ t.idx >= 1 => t.status # "raised"
        /\ Len(store) = Len(store0)
        /\ \A r \in 1..Len(store) : store[r].id = store0[r].id

\* C10 witness: a saving worker returned from the batch of one id that has no
\* row, with one failure, and nothing else went wrong in the run.
C10_Witness ==
    /\ save
    /\ faults = Cardinality({i \in 1..Len(job_ids) : ~HasRow(job_ids[i])})
    /\ \E w \in 1..Len(task) :
         /\ task[w].status = "returned"
         /\ Len(task[w].batch) = 1
         /\ ~HasRow(task[w].batch[1])
         /\ task[w].failure_count = 1
         /\ task[w].success_count = 0

\* C11: when the selection yields no job id, no worker and no thread pool
\* is started and the run reports success_count = 0 and failure_count = 0,
\* a no-op and not a failure.
C11_EmptySelectionNoOp ==
    orch.pc = "no_jobs" /\ faults = 0 =>
        /\ job_ids = <<>> /\ task = <<>> /\ orch.max_workers = 0
        /\ "success_count" \in DOMAIN run_result
        /\ run_result.success_count = 0
        /\ run_result.failure_count = 0
        /\ run_result.success

\* A description the pipeline takes for valid: not null, not empty, not
\* the sentinel.
ValidDescription(d) == d \notin {None, "", NA}

Selected ==
    orch.pc \notin {"validate", "invalid", "unsupported", "pages", "select"}

\* C12: the missing-description criterion never selects a record whose
\* description is valid; on a table where every description is valid it
\* selects nothing, and the run processes nothing and writes nothing.
C12_SelectionIdempotent ==
    Selected /\ criterion.filter \in {"new", "N/A"} =>
        /\ \A i \in 1..Len(job_ids) :
             \E r \in 1..Len(store0) :
                /\ store0[r].id = job_ids[i]
                /\ ~ValidDescription(store0[r].description)
        /\ (\A r \in 1..Len(store0) : ValidDescription(store0[r].description))
             => /\ job_ids = <<>>
                /\ orch.pc = "no_jobs"
                /\ task = <<>>
                /\ write_calls = {}
                /\ store = store0

\* C12 witness: the selection has run with the "new" filter on a table of
\* several rows of the platform, all with a valid description.
C12_Witness ==
    /\ orch.pc = "no_jobs"
    /\ criterion.filter = "new" /\ criterion.job_class = None
    /\ Len(store0) >= 2
    /\ \A r \in 1..Len(store0) :
         /\ ValidDescription(store0[r].description)
         /\ store0[r].source = source

\* The places of the id list whose job has been counted.
Counted == {p \in 1..Len(counted) : counted[p] # "pending"}

\* The place in the id list of job i of task w.
Place(w, i) == (w - 1) * orch.batch_size + i

\* The jobs of task w counted by one of the statements `lines`.
CountedBy(w, lines) ==
    {i \in 1..Len(task[w].batch) : counted[Place(w, i)] \in lines}

\* The description column of the row of job_id (ids are unique in these
\* tables), None without row.
DescriptionOf(job_id) ==
    IF HasRow(job_id)
    THEN store[CHOOSE r \in 1..Len(store) : store[r].id = job_id].description
    ELSE None

\* The description the fetch of job_id gives when it gives a valid one.
Fetched(job_id) == JobDetails(job_id, "valid").description

\* C13 as stated: a fetch that gives a valid description is a success; with
\* save and the record present the record's description is the fetched one
\* and the job is counted in success_count.
C13_ValidIsSuccess ==
    \A p \in Counted :
        /\ ~save => counted[p] = "preview"
        /\ save /\ HasRow(job_ids[p]) =>
              /\ counted[p] = "saved"
              /\ DescriptionOf(job_ids[p]) = Fetched(job_ids[p])

\* C13 amended: a valid description is a success in preview mode, and with
\* save when update_job_description returns True and no later store call of
\* the job raises; the record's description is then the fetched one. The
\* job is counted once, in success_count in exactly these cases, and in a
\* run without a failing store call every job with a record is one.
C13_ValidIsSuccessIfSaved ==
    /\ \A p \in Counted :
         /\ counted[p] \in {"preview", "saved", "rejected", "error"}
         /\ ~save => counted[p] = "preview"
         /\ save => counted[p] # "preview"
         /\ counted[p] = "saved" =>
               DescriptionOf(job_ids[p]) = Fetched(job_ids[p])
         /\ save /\ faults = 0 => counted[p] = "saved"
    /\ \A w \in 1..Len(task) :
         /\ task[w].success_count
               = Cardinality(CountedBy(w, {"preview", "saved"}))
         /\ task[w].failure_count
               = Cardinality(CountedBy(w, {"rejected", "error"}))

\* C13 witness: in a saving run one job was saved with its description and
\* counted as the one success of its returned worker, another was not.
C13_Witness ==
    /\ save
    /\ \E w \in 1..Len(task) :
         /\ task[w].status = "returned"
         /\ task[w].success_count = 1
         /\ \E i \in CountedBy(w, {"saved"}) :
              DescriptionOf(task[w].batch[i]) = Fetched(task[w].batch[i])
    /\ \E p \in Counted : counted[p] \in {"rejected", "error"}

\* The ids a later run with the "new" filter would select from the table as
\* it is now, whatever its quantity.
Reselected ==
    LET ids == get_jobs_with_filters(store, Len(store), "new",
                                     criterion.job_class, source, "ok")
    IN  {ids[i] : i \in 1..Len(ids)}

\* The counted jobs whose record is still without description (or gone).
Unmarked == {p \in Counted : DescriptionOf(job_ids[p]) \in {None, ""}}

\* C14: a fetch that gives an empty or "N/A" description is counted as a
\* failure and, with save, the sentinel "N/A" is written: a record attempted
\* in a save run whose write succeeded has a description that is neither
\* null nor empty, and the "new" filter does not select it again.
C14_SentinelMarksAttempt ==
    /\ \A p \in Counted : counted[p] \in {"empty", "error"}
    /\ \A w \in 1..Len(task) :
         /\ task[w].success_count = 0
         /\ task[w].failure_count = Done(task[w])
    /\ save =>
         /\ \A p \in Counted :
              /\ counted[p] = "empty" /\ faults = 0 =>
                    DescriptionOf(job_ids[p]) = NA
              /\ p \notin Unmarked => job_ids[p] \notin Reselected
         /\ Cardinality(Unmarked) <= faults

\* C14 witness: a saving run has returned, every job of it counted as
\* empty, every record marked with the sentinel, none selected again.
C14_Witness ==
    /\ save
    /\ orch.pc = "returned"
    /\ Len(job_ids) >= 2
    /\ \A p \in 1..Len(job_ids) :
         /\ counted[p] = "empty"
         /\ DescriptionOf(job_ids[p]) = NA
    /\ Reselected = {}

\* C15: when fetching or parsing a job's page raises, the job is counted as
\* a failure and, with save, its description becomes an error tag made from
\* the exception type, "Error: <type>", which is not the sentinel "N/A";
\* when that write fails too the worker goes on.
C15_FetchErrorTagged ==
    /\ \A p \in Counted :
         /\ counted[p] \in {"empty", "error"}
         /\ save /\ faults = 0 =>
               DescriptionOf(job_ids[p]) \notin {None, "", NA}
    /\ \A w \in 1..Len(task) :
         /\ task[w].success_count = 0
         /\ task[w].failure_count = Done(task[w])
         /\ task[w].idx >= 1 => task[w].status # "raised"

\* C16: in a run every job id is owned by one worker: no id is in the
\* batches of two different workers, so no two workers write the same
\* record.
C16_OneOwnerPerId ==
    \A v, w \in 1..Len(task) :
        v # w =>
            \A i \in 1..Len(task[v].batch), j \in 1..Len(task[w].batch) :
                task[v].batch[i] # task[w].batch[j]

\* C17: the selector hands over a deduplicated list: whatever the table
\* holds, several rows with the same job id included, and whatever the
\* criterion, no id is twice in the list given to the splitter.
C17_SelectionDeduplicated ==
    Selected =>
        \A i, j \in 1..Len(job_ids) : i # j => job_ids[i] # job_ids[j]

\* C18: within a batch the jobs are processed in the splitter's order: the
\* jobs a worker has counted are the first of its batch, the job it is at
\* is the next one, and no later job of the batch has been written; across
\* batches there is no order.
C18_InBatchOrder ==
    HasSplit =>
        \A w \in 1..Len(task) :
            /\ task[w].status = "running" =>
                  task[w].idx \in 1..Len(task[w].batch)
            /\ \A i \in 1..Len(task[w].batch) :
                 /\ counted[Place(w, i)] # "pending" <=> i <= Done(task[w])
                 /\ i > Done(task[w]) =>
                       DescriptionOf(task[w].batch[i]) = None

\* C18 witness: the second worker has gone through its batch in order while
\* the first one is still at the second job of its own.
C18_Witness ==
    /\ Len(task) >= 2
    /\ task[1].status = "running" /\ task[1].idx = 2
    /\ counted[Place(1, 1)] # "pending"
    /\ counted[Place(1, 2)] = "pending"
    /\ task[2].status = "returned" /\ Len(task[2].batch) >= 2

\* The state of the job at place p of the id list: a counted success, a
\* failure for want of a valid description, a failure by a store call that
\* raised or was rejected, or none of these yet.
JobState(c) ==
    CASE c = "pending"             -> "PENDING"
      [] c \in {"saved", "preview"} -> "SUCCESS"
      [] c = "empty"               -> "FAILURE_EMPTY"
      [] OTHER                     -> "FAILURE_ERROR"

\* C19: in a run every job goes from PENDING to one of SUCCESS,
\* FAILURE_EMPTY, FAILURE_ERROR and stays there: a step changes the state
\* of a job only from PENDING, of one job of a worker at a time, moving one
\* counter of that worker by one; no job is fetched again.
C19_JobStateMachine ==
    [][ /\ \A p \in DOMAIN counted :
             counted[p] # "pending" =>
                 p \in DOMAIN counted' /\ counted'[p] = counted[p]
        /\ \A w \in DOMAIN task :
             w \in DOMAIN task' =>
               LET moved == {i \in 1..Len(task[w].batch) :
                                counted'[Place(w, i)] # counted[Place(w, i)]}
               IN  /\ Cardinality(moved) <= 1
                   /\ \A i \in moved :
                        /\ i = task[w].idx
                        /\ JobState(counted'[Place(w, i)]) \in
                              {"SUCCESS", "FAILURE_EMPTY", "FAILURE_ERROR"}
                        /\ JobState(counted'[Place(w, i)]) = "SUCCESS" <=>
                              task'[w].success_count = task[w].success_count + 1
                   /\ task'[w].success_count + task'[w].failure_count
                        = task[w].success_count + task[w].failure_count
                            + Cardinality(moved)
      ]_vars

\* C19 witness: a run has returned with jobs in each of the three final
\* states.
C19_Witness ==
    /\ orch.pc = "returned"
    /\ \A p \in 1..Len(counted) : counted[p] # "pending"
    /\ \A st \in {"SUCCESS", "FAILURE_EMPTY", "FAILURE_ERROR"} :
         \E p \in 1..Len(counted) : JobState(counted[p]) = st

\* The run is over: _scrape_job_details has returned its totals or an
\* exception has left it.
RunOver == orch.pc \in {"returned", "raised"}

\* C20: a run over one job or more ends with every job counted as a success
\* or a failure and with the totals reported: whenever the run is over, it
\* has returned, no job is left uncounted and the reported counts add up
\* to the number of jobs.
C20_RunCompletes ==
    RunOver =>
        /\ orch.pc = "returned"
        /\ \A p \in 1..Len(job_ids) : counted[p] # "pending"
        /\ "success_count" \in DOMAIN run_result
        /\ run_result.success
        /\ run_result.success_count + run_result.failure_count = Len(job_ids)

\* What run() hands back when the query ran and matched no row.
NoJobsFound ==
    [ success |-> FALSE, message |-> "No jobs found", jobs_scraped |-> 0 ]

\* C21: when the query of the job-id selection fails, the run is aborted and
\* the caller is told so: what run() hands back is not what it hands back
\* when the query ran and matched nothing.
C21_SelectionErrorSurfaced ==
    orch.query = "raise" =>
        /\ job_ids = <<>> /\ task = <<>>
        /\ run_result # NoJobsFound

\* The places of the id list whose job this step counted.
CountedNow == {p \in DOMAIN counted : p \in DOMAIN counted' /\ counted'[p] # counted[p]}

\* C22: when a store write fails while a job's result is recorded (the
\* call raises or reports failure), that job is counted as a failure, not
\* as a success, and its worker goes on: it has not raised and it is at
\* the next job of its batch or has returned.
C22_WriteFailureIsJobFailure ==
    [][ \A w \in DOMAIN task : \A i \in 1..Len(task[w].batch) :
          Place(w, i) \in CountedNow /\ faults' > faults =>
              /\ JobState(counted'[Place(w, i)]) \in
                    {"FAILURE_EMPTY", "FAILURE_ERROR"}
              /\ task'[w].success_count = task[w].success_count
              /\ task'[w].failure_count = task[w].failure_count + 1
              /\ task'[w].status \in {"running", "returned"}
              /\ task'[w].status = "running" => task'[w].idx = i + 1
      ]_vars

\* A run in which what every fetch gives is fixed per job (a valid
\* description or none), every store call goes through and a write is
\* rejected exactly for the ids whose row is gone: over 1..MaxJobs rows,
\* every one selected, with any valid workers value, either source and
\* either save flag.
InitFixed ==
    /\ source \in {"jobsdb", "linkedin"}
    /\ \E m \in 1..MaxJobs :
        /\ store = SeqOf(1..m, source)
        /\ \E f \in [1..m -> {"valid", "empty"}] :
             env = [ fetch |-> [p \in 1..m |-> {f[p]}],
                     write |-> {"ok"}, setup |-> {"ok"},
                     select |-> {"ok"}, vanish |-> {"none", "row"},
                     platforms |-> Platforms(source) ]
    /\ criterion \in Configs({PyInt(MaxJobs)}, {"new"}, {None})
    /\ workers \in {w \in RawWorkers : w.is_int /\ w.val >= 1}
    /\ save \in BOOLEAN
    /\ job_ids = <<>>
    /\ faults = 0
    /\ store0 = store
    /\ orch = orch0
    /\ task = <<>>
    /\ write_calls = {}
    /\ counted = <<>>

SpecFixed == InitFixed /\ [][Next]_vars

\* The runs of every configuration: any quantity, page bounds, filter and
\* workers value as given to the constructor, over a table of MaxRows rows
\* at most, with nothing failing.
InitConfig ==
    /\ source \in {"jobsdb", "linkedin"}
    /\ \E m \in 0..MaxRows :
        /\ store = SeqOf(1..m, source)
        /\ env = [ fetch |-> [p \in 1..m |-> {"valid", "empty"}],
                   write |-> {"ok"}, setup |-> {"ok"}, select |-> {"ok"},
                   vanish |-> {"none"},
                   platforms |-> Platforms(source) ]
    /\ criterion \in
         { post_init([quantity |-> q, filter |-> f, job_class |-> None,
                      start_page |-> sp, end_page |-> ep,
                      config_type |-> 0, source_platform_id |-> PyNone]) :
             q \in {PyNone, NotInt, PyInt(0), PyInt(MaxRows)},
             f \in RawFilter, sp \in RawPage, ep \in RawPage }
    /\ workers \in RawWorkers \cup {NotInt}
    /\ save = TRUE
    /\ job_ids = <<>>
    /\ faults = 0
    /\ store0 = store
    /\ orch = orch0
    /\ task = <<>>
    /\ write_calls = {}
    /\ counted = <<>>

SpecConfig == InitConfig /\ [][Next]_vars

\* config.source_platform as given: a platform name in some spelling, the
\* default "all", or a number written out.
RawSource ==
    {"jobsdb", "JobsDB", "linkedin", "LinkedIn", "all"}
        \cup {ToString(k) : k \in 0..MaxId}

\* The rows the source_platform table may hold, and the lists
\* get_all_source_platforms may return: up to two of them in any order,
\* none when the table is empty or reading it failed.
PlatformRows ==
    { [id |-> 1, name |-> "JobsDB"], [id |-> 2, name |-> "LinkedIn"],
      [id |-> 3, name |-> "indeed"] }
PlatformLists ==
    {<<>>} \cup {<<p>> : p \in PlatformRows}
           \cup {pq \in PlatformRows \X PlatformRows : pq[1] # pq[2]}

\* The runs of a quantity-based configuration with every source_platform
\* value against every such platform list, over a table of MaxRows rows at
\* most of one of the two platforms, with nothing failing.
InitPlatform ==
    /\ source \in RawSource
    /\ \E m \in 0..MaxRows, src \in Supported :
        /\ store = SeqOf(1..m, src)
        /\ \E platforms \in PlatformLists :
             env = [ fetch |-> [p \in 1..m |-> {"valid", "empty"}],
                     write |-> {"ok"}, setup |-> {"ok"}, select |-> {"ok"},
                     vanish |-> {"none"}, platforms |-> platforms ]
    /\ criterion \in Configs({PyInt(MaxRows)}, {"new"}, {None})
    /\ workers = PyInt(2)
    /\ save = TRUE
    /\ job_ids = <<>>
    /\ faults = 0
    /\ store0 = store
    /\ orch = orch0
    /\ task = <<>>
    /\ write_calls = {}
    /\ counted = <<>>

SpecPlatform == InitPlatform /\ [][Next]_vars

\* ------------------------------------ src/apps/python/job_scraper/__init__.py
\* _worker_scrape(job_id, save), lines 52-84: the store calls its try block
\* makes for the details d its fetch gave.
worker_scrape_calls(d, sv) ==
    IF ~sv THEN <<>>
    ELSE IF is_valid(d)
         THEN <<call("update_job_description", "description", d.description)>>
    ELSE IF ~d.is_none
         THEN <<call("update_job_description", "description", NA)>>
    ELSE <<call("update_job_description", "description",
                "Error: Scrape Failed")>>

\* _worker_scrape, lines 52-84: what it returns when its store calls
\* returned `results` and none raised.
worker_scrape(d, sv, results) ==
    IF is_valid(d) THEN (~sv \/ results[1] = "True") ELSE FALSE

\* The job at hand of worker w as it stands after a fetch that gave None,
\* and after one that gave a Job with the description "".
WithNull(w) == [task[w] EXCEPT !.details = NoDetails]
WithEmpty(w) ==
    [task[w] EXCEPT !.details = JobDetails(job_at(task[w]), "empty")]

\* C23: a fetch that gives None and a fetch that gives the description ""
\* are treated alike, for the same job and save flag: the same store calls
\* with the same values (none in preview mode) and the same counter moved,
\* in process_job_batch and in _worker_scrape.
C23_NullAsEmpty ==
    \A w \in 1..Len(task) :
        InLoop(w) =>
            /\ try_calls(WithNull(w)) = try_calls(WithEmpty(w))
            /\ \A a \in do_calls(store, job_at(task[w]), try_calls(WithNull(w)),
                                  MaxFaults - faults) :
                 /\ loop_turn(WithNull(w), a, a.raised)
                      = loop_turn(WithEmpty(w), a, a.raised)
                 /\ counter_line(WithNull(w), a, a.raised)
                      = counter_line(WithEmpty(w), a, a.raised)
            /\ worker_scrape_calls(WithNull(w).details, save)
                 = worker_scrape_calls(WithEmpty(w).details, save)
            /\ \A r \in {"True", "False"} :
                 worker_scrape(WithNull(w).details, save, <<r>>)
                     = worker_scrape(WithEmpty(w).details, save, <<r>>)

\* The jobs, by place of the id list, that a worker has been through.
Processed == {job_ids[p] : p \in {q \in 1..Len(counted) : counted[q] # "pending"}}

\* C24: the detail pipeline deletes no row of the jobs table and adds none:
\* from the selection on, whatever the save flag and however the workers
\* interleave, the table has the rows it had, with the ids and sources
\* they had, and a row differs from what it was only in its description,
\* title, company and job class and only when its job was processed.
C24_RowsOnlyUpdated ==
    Selected =>
        /\ Len(store) = Len(store0)
        /\ \A r \in 1..Len(store0) :
             /\ store[r].id = store0[r].id
             /\ store[r].source = store0[r].source
             /\ store[r] # store0[r] => store[r].id \in Processed

\* C24 witness: a saving run of two workers or more has returned; it wrote
\* the description of one row, left another row as it was, and one of its
\* ids had no row.
C24_Witness ==
    /\ save /\ orch.pc = "returned" /\ Len(task) >= 2
    /\ \E r \in 1..Len(store) : store[r].description # store0[r].description
    /\ \E r \in 1..Len(store) : store[r] = store0[r]
    /\ \E p \in 1..Len(job_ids) : ~HasRow(job_ids[p])

\* What fut.result() of one _worker_scrape future gives: True, False, or
\* an exception the worker did not catch.
WorkerResults == {"True", "False", "raise"}

\* scrape_job_details of src/apps/python, lines 239-267: success and
\* failure after the futures completed with `results`, in that order.
RECURSIVE scrape_job_details_totals(_)
scrape_job_details_totals(results) ==
    IF results = <<>> THEN [success |-> 0, failure |-> 0]
    ELSE LET n    == Len(results)
             sofar == scrape_job_details_totals(SubSeq(results, 1, n - 1))
         IN  IF results[n] = "True"
             THEN [sofar EXCEPT !.success = @ + 1]
             ELSE [sofar EXCEPT !.failure = @ + 1]

\* C25: every job of a batch moves exactly one of the two counters, once,
\* on every path: a worker's success_count is the number of its jobs saved
\* or previewed, its failure_count the number of its jobs without valid
\* description, with a rejected write or with an exception; a returned
\* worker has success + failure = len(batch), and a returned run reports
\* jobs_processed = success_count + failure_count = N. The per-job futures
\* of scrape_job_details add up to N as well, whatever they gave.
C25_CounterConservation ==
    /\ HasSplit =>
         \A w \in 1..Len(task) :
             LET t == task[w]
             IN  /\ t.success_count
                      = Cardinality(CountedBy(w, {"saved", "preview"}))
                 /\ t.failure_count
                      = Cardinality(CountedBy(w, {"empty", "rejected", "error"}))
                 /\ t.success_count + t.failure_count = Done(t)
                 /\ t.status = "returned" =>
                      t.success_count + t.failure_count = Len(t.batch)
    /\ orch.pc = "returned" =>
         /\ run_result.jobs_processed = Len(job_ids)
         /\ run_result.success_count + run_result.failure_count = Len(job_ids)
    /\ \A results \in [1..Len(job_ids) -> WorkerResults] :
         LET c == scrape_job_details_totals(results)
         IN  c.success + c.failure = Len(job_ids)

\* C25 witness: a saving run of two workers or more has returned, with a
\* job saved, a job without valid description and a job whose store call
\* raised.
C25_Witness ==
    /\ save /\ orch.pc = "returned" /\ Len(task) >= 2
    /\ \A line \in {"saved", "empty", "error"} :
         \E p \in 1..Len(counted) : counted[p] = line

\* The run done by one thread, job after job in the order of the id list,
\* up to place k: the table and the two counts after it. The fetch of a
\* place gives the one thing env.fetch allows there, and no store call
\* fails otherwise than by finding no row.
RECURSIVE sequential(_)
sequential(k) ==
    IF k = 0 THEN [store |-> store0, success_count |-> 0, failure_count |-> 0]
    ELSE LET before == sequential(k - 1)
             o == CHOOSE x \in env.fetch[k] : TRUE
             t == [task0(<<job_ids[k]>>) EXCEPT
                      !.idx = 1, !.details = get_job_details(job_ids[k], o)]
             a == CHOOSE x \in do_calls(before.store, job_ids[k],
                                        try_calls(t), 0) : TRUE
             c == tally(t, a, a.raised)
         IN  [store |-> a.store,
              success_count |-> before.success_count + c.success_count,
              failure_count |-> before.failure_count + c.failure_count]

\* The orders in which n futures can complete.
Orders(n) == {f \in [1..n -> 1..n] : \A i, j \in 1..n : f[i] = f[j] => i = j}

\* C26: with the id list, the workers value, the save flag and what every
\* fetch and store call of a job does fixed, the reported counts and the
\* table a returned run leaves are those of the sequential run, however
\* the workers interleaved; and the totals of scrape_job_details are the
\* same for every completion order of the per-job futures.
C26_AggregateDeterministic ==
    orch.pc = "returned" =>
        /\ run_result.success_count = sequential(Len(job_ids)).success_count
        /\ run_result.failure_count = sequential(Len(job_ids)).failure_count
        /\ store = sequential(Len(job_ids)).store
        /\ \A results \in [1..Len(job_ids) -> WorkerResults] :
             \A order \in Orders(Len(job_ids)) :
                 scrape_job_details_totals(
                     [i \in 1..Len(job_ids) |-> results[order[i]]])
                   = scrape_job_details_totals(results)

\* C26 witness: a saving run of two workers or more has returned with
\* successes and failures, one of its ids without row and another whose
\* fetch gave no description.
C26_Witness ==
    /\ save /\ orch.pc = "returned" /\ Len(task) >= 2
    /\ orch.total_success >= 1 /\ orch.total_failure >= 1
    /\ \E p \in 1..Len(job_ids) : ~HasRow(job_ids[p])
    /\ \E p \in 1..Len(job_ids) :
         HasRow(job_ids[p]) /\ env.fetch[p] = {"empty"}

\* C27: the splitter makes at most effective_workers = min(W, N) batches,
\* so every submitted task has a pool thread of its own: a task that has
\* not started is never held back by the size of the pool, and at most
\* effective_workers workers are active at a time.
C27_ThreadPerBatch ==
    HasSplit =>
        /\ orch.max_workers = Min(workers.val, Len(job_ids))
        /\ Len(orch.job_batches) <= orch.max_workers
        /\ Len(task) = Len(orch.job_batches)
        /\ Cardinality(Running) <= orch.max_workers
        /\ \A w \in 1..Len(task) :
             task[w].status = "pending" =>
                 Cardinality(Running) < orch.max_workers

\* C27 witness: all the tasks of a run, as many as the pool has threads and
\* more than one, are active at the same time.
C27_Witness ==
    /\ HasSubmitted
    /\ Len(task) >= 2
    /\ Len(task) = orch.max_workers
    /\ Running = 1..Len(task)

\* C28: through run() the batch splitter is never reached with an empty id
\* list: a run whose selection is empty ends before _scrape_job_details,
\* with no pool size computed and no task made, and where the splitter has
\* run the id list is not empty and max_workers and batch_size are at
\* least 1.
C28_SplitterNeverEmpty ==
    /\ orch.pc = "split" \/ HasSplit => job_ids # <<>>
    /\ HasSplit => orch.max_workers >= 1 /\ orch.batch_size >= 1
    /\ orch.pc = "no_jobs" =>
         /\ job_ids = <<>> /\ task = <<>>
         /\ orch.max_workers = 0 /\ orch.job_batches = <<>>

\* C28 witness: the query ran, matched no row, and the run ended with
\* "No jobs found".
C28_Witness ==
    /\ orch.pc = "no_jobs"
    /\ orch.query = "ok"
    /\ run_result = NoJobsFound

\* The two shapes of a validated configuration.
Type1Shape(c) ==
    /\ c.config_type = 1
    /\ c.quantity.is_int /\ c.quantity.val >= 1
    /\ c.filter \in {"N/A", "all", "new"}
    /\ c.start_page = PyNone /\ c.end_page = PyNone
Type2Shape(c) ==
    /\ c.config_type = 2
    /\ c.start_page.is_int /\ c.end_page.is_int
    /\ 1 <= c.start_page.val /\ c.start_page.val <= c.end_page.val
    /\ c.quantity = PyNone

\* C29: a validation that succeeds leaves the configuration in exactly one
\* of two shapes, type 1 (an int quantity >= 1, a FilterType, no page
\* bounds) or type 2 (int page bounds 1 <= start_page <= end_page, no
\* quantity), with workers an int >= 1; the type is the one the
\* constructor chose (1 with a quantity, 2 without quantity and with a
\* page bound) and validation does not change it, and nothing changes the
\* configuration afterwards.
C29_ValidatedShape ==
    [][ /\ orch.pc = "validate" /\ orch'.pc # "invalid" =>
             /\ criterion.config_type = 1 => criterion.quantity # PyNone
             /\ criterion.config_type = 2 =>
                  /\ criterion.quantity = PyNone
                  /\ criterion.start_page # PyNone \/ criterion.end_page # PyNone
             /\ criterion'.config_type = criterion.config_type
             /\ Type1Shape(criterion') \/ Type2Shape(criterion')
             /\ workers'.is_int /\ workers'.val >= 1
        /\ orch.pc # "validate" =>
             criterion' = criterion /\ workers' = workers
      ]_vars

\* C29 witness: a validated page-based configuration, on its way to the
\* page-based run, with start_page = end_page = MaxPage.
C29_Witness ==
    /\ orch.pc = "pages"
    /\ Type2Shape(criterion)
    /\ criterion.start_page = PyInt(MaxPage)
    /\ criterion.end_page = PyInt(MaxPage)

\* The rows of the platform list whose id is the number source_platform
\* spells out, and those whose name is source_platform but for the case.
ListedById ==
    {k \in 1..Len(env.platforms) :
        int_of(source).is_int /\ env.platforms[k].id = int_of(source).val}
ListedByName ==
    {k \in 1..Len(env.platforms) :
        lower(env.platforms[k].name) = lower(source)}

\* C30: validation accepts a source_platform given by name exactly when
\* some platform of the list, at whatever position, has that name but for
\* the case, and one given as a number exactly when a listed platform has
\* that id; on acceptance source_platform_id and source_platform_name are
\* those of one listed platform; otherwise validation raises and no run
\* starts.
C30_PlatformValidation ==
    [][ /\ orch.pc = "validate" =>
             /\ orch'.pc # "invalid" <=>
                  IF int_of(source).is_int THEN ListedById # {}
                  ELSE ListedByName # {}
             /\ orch'.pc # "invalid" =>
                  \E k \in 1..Len(env.platforms) :
                      /\ criterion'.source_platform_id
                           = PyInt(env.platforms[k].id)
                      /\ source' = env.platforms[k].name
        /\ orch.pc # "invalid"
      ]_vars

====
